---- MODULE Spec2Model ----
(***************************************************************************)
(* Authors service (users-api): vector store, similarity search, question  *)
(* answering and author creation, as implemented in                        *)
(* src/services/users-api/{main,vector_search,bedrock_client,database}.py, *)
(* its bulk loader (data_loader.py) and the books service                  *)
(* (src/services/books-api/main.py).                                       *)
(*                                                                         *)
(* Abstractions: an embedding is a tuple of small integers standing for a  *)
(* direction (cosine similarity is scale free); scores are compared in     *)
(* exact arithmetic, float rounding is not modelled; text fields are       *)
(* strings drawn from small sets.                                          *)
(***************************************************************************)
EXTENDS Integers, Sequences, FiniteSets, TLC

VARIABLES authors, id_seq, req, books_db, book_id_counter, workers, loader

vars == <<authors, id_seq, req, books_db, book_id_counter, workers, loader>>

\* the state of the books service (books-api/main.py)
books_vars == <<books_db, book_id_counter, workers>>

(***************************************************************************)
(* Bounds of the model.                                                    *)
(***************************************************************************)
\* stand-in for the length of an embedding (1024 in the deployment)
Dim == 2
\* last value the SERIAL sequence of authors.id may hand out
MaxId == 2
\* largest top_k a request carries
MaxTopK == 2
\* rows of a table given as input to the similarity query
MaxRows == 3
\* largest limit a GET /authors carries
MaxLimit == 2
\* request threads of the books service
NumWorkers == 2
\* last id create_book may hand out
MaxBookId == 5
\* entries of books_db, those of requests in progress included
MaxBooks == 5
\* longest list of authors given to the loader
MaxAuthors == 3

(***************************************************************************)
(* Values.                                                                 *)
(***************************************************************************)
\* a NULL embedding column
NoEmbedding == <<>>

\* Python's None
None == [none |-> TRUE]

Axis(i) == [j \in 1..Dim |-> IF j = i THEN 1 ELSE 0]

Ones == [j \in 1..Dim |-> 1]

\* embeddings of the configured dimension the provider may return
Vectors == {Axis(i) : i \in 1..Dim} \cup {Ones}

\* an embedding whose length is not the configured dimension
ShortVector == [j \in 1..(Dim - 1) |-> 1]

\* request bodies of POST /authors; the third reuses the first one's email
AuthorInputs ==
    { [name |-> "Ana", email |-> "a@x", bio |-> "bio1", expertise |-> "exp1"],
      [name |-> "Bob", email |-> "b@x", bio |-> "bio2", expertise |-> "exp2"],
      [name |-> "Cy",  email |-> "a@x", bio |-> "bio2", expertise |-> "exp1"] }

Questions == {"q1", "q2"}

\* query texts of POST /search/text
Queries == {"q1"}

\* similarity_threshold values POST /search/text is sent with: 0.0, 0.8
SearchThresholds == {<<0, 10>>, <<8, 10>>}

Answers == {"answer", ""}

\* thresholds as <<numerator, denominator>>: 0.0, 0.3, 0.8
Thresholds == {<<0, 10>>, <<3, 10>>, <<8, 10>>}

\* similarity_threshold=0.3 of ask_question
GroundingThreshold == <<3, 10>>

TopKs == 1..MaxTopK

\* limit: int = Query(100, ge=1, le=1000)
Limits == 1..MaxLimit

\* generate_text(prompt, max_tokens=512)
DefaultMaxTokens == 512

\* max_tokens of the profile summary
SummaryMaxTokens == 256

\* max_tokens of the grounded answer
AnswerMaxTokens == 512

(***************************************************************************)
(* Cosine similarity, exactly: dot / sqrt(nn).                             *)
(***************************************************************************)
RECURSIVE DotFrom(_, _, _)
DotFrom(a, b, i) == IF i > Len(a) THEN 0 ELSE a[i] * b[i] + DotFrom(a, b, i + 1)

Dot(a, b) == DotFrom(a, b, 1)

SqSgn(x) == IF x >= 0 THEN x * x ELSE 0 - (x * x)

\* 1 - (embedding <=> query_embedding)
similarity_score(embedding, query_embedding) ==
    [dot |-> Dot(embedding, query_embedding),
     nn  |-> Dot(embedding, embedding) * Dot(query_embedding, query_embedding)]

\* s1 < s2
ScoreLess(s1, s2) == SqSgn(s1.dot) * s2.nn < SqSgn(s2.dot) * s1.nn

ScoreEq(s1, s2) == SqSgn(s1.dot) * s2.nn = SqSgn(s2.dot) * s1.nn

\* s > threshold
ScoreAbove(s, threshold) ==
    SqSgn(s.dot * threshold[2]) > SqSgn(threshold[1]) * s.nn

(***************************************************************************)
(* The authors table (database.py) and the queries of vector_search.py.    *)
(***************************************************************************)
Min(a, b) == IF a < b THEN a ELSE b

Take(s, k) == SubSeq(s, 1, Min(k, Len(s)))

\* all orders in which the rows of S can be listed
Perms(S) ==
    {p \in [1..Cardinality(S) -> S] : \A i, j \in 1..Cardinality(S) : i # j => p[i] # p[j]}

\* the columns every SELECT of vector_search.py returns
Author(row) ==
    [id |-> row.id, name |-> row.name, email |-> row.email,
     bio |-> row.bio, expertise |-> row.expertise]

\* one row of the result of search_similar_authors
SearchRow(row, query_embedding) ==
    [id |-> row.id, name |-> row.name, email |-> row.email,
     bio |-> row.bio, expertise |-> row.expertise,
     similarity_score |-> similarity_score(row.embedding, query_embedding)]

\* embedding_str::vector: a vector has at least one component
CastFails(embedding) == Len(embedding) = 0

\* s < threshold
ScoreBelow(s, threshold) ==
    SqSgn(s.dot * threshold[2]) < SqSgn(threshold[1]) * s.nn

\* Matching with >= for >
MatchingAtLeast(store, query_embedding, threshold) ==
    {row \in store :
        /\ row.embedding # NoEmbedding
        /\ ~ScoreBelow(similarity_score(row.embedding, query_embedding), threshold)}

\* WHERE embedding IS NOT NULL AND 1 - (embedding <=> q) > threshold
Matching(store, query_embedding, threshold) ==
    {row \in store :
        /\ row.embedding # NoEmbedding
        /\ ScoreAbove(similarity_score(row.embedding, query_embedding), threshold)}

\* ORDER BY embedding <=> q: ascending distance, no second key
Ordered(p) ==
    \A i, j \in 1..Len(p) :
        i < j => ~ScoreLess(p[i].similarity_score, p[j].similarity_score)

\* The outcomes of search_similar_authors.  The statement raises when the
\* query vector cannot be cast or its length differs from a stored one.
\* Otherwise the rows come by ascending distance and are cut at top_k; rows
\* at equal distance come in any order, and the ivfflat index scan may skip
\* matching rows.
search_similar_authors(store, query_embedding, top_k, similarity_threshold) ==
    IF \/ CastFails(query_embedding)
       \/ \E row \in store : /\ row.embedding # NoEmbedding
                             /\ Len(row.embedding) # Len(query_embedding)
    THEN {[raised |-> TRUE, rows |-> <<>>]}
    ELSE {[raised |-> FALSE, rows |-> Take(p, top_k)] :
            p \in UNION {
                {q \in Perms({SearchRow(row, query_embedding) : row \in scanned}) : Ordered(q)} :
                scanned \in SUBSET Matching(store, query_embedding, similarity_threshold)}}

\* get_author_by_id with bio and expertise read from each other's column
GetAuthorByIdSwapped(store, author_id) ==
    IF \E row \in store : row.id = author_id
    THEN LET row == CHOOSE row \in store : row.id = author_id
         IN [id |-> row.id, name |-> row.name, email |-> row.email,
             bio |-> row.expertise, expertise |-> row.bio]
    ELSE None

\* SELECT ... WHERE id = :author_id
get_author_by_id(store, author_id) ==
    IF \E row \in store : row.id = author_id
    THEN Author(CHOOSE row \in store : row.id = author_id)
    ELSE None

\* the records of the rows listed, in the order listed
RECURSIVE AuthorsOf(_)
AuthorsOf(p) == IF p = <<>> THEN <<>> ELSE <<Author(Head(p))>> \o AuthorsOf(Tail(p))

\* get_all_authors without ORDER BY: the rows come in any order
GetAllAuthorsUnordered(store, limit) ==
    {AuthorsOf(Take(p, limit)) : p \in Perms(store)}

\* ORDER BY id
OrderedById(p) == \A i, j \in 1..Len(p) : i < j => p[i].id <= p[j].id

\* The results get_all_authors can return: the rows by ascending id, cut at
\* limit.
get_all_authors(store, limit) ==
    {AuthorsOf(Take(p, limit)) : p \in {q \in Perms(store) : OrderedById(q)}}

\* the row INSERT writes
NewRow(seq, author, embedding) ==
    [id |-> seq, name |-> author.name, email |-> author.email,
     bio |-> author.bio, expertise |-> author.expertise, embedding |-> embedding]

\* insert_author on a table whose email column is not UNIQUE
InsertWithoutUnique(store, seq, author, embedding, store_outcome) ==
    IF store_outcome = "down"
    THEN [error |-> "StoreUnavailable", store |-> store, seq |-> seq, row |-> None]
    ELSE IF CastFails(embedding) \/ Len(embedding) # Dim
    THEN [error |-> "DimensionMismatch", store |-> store, seq |-> seq, row |-> None]
    ELSE [error |-> "", store |-> store \cup {NewRow(seq, author, embedding)},
          seq |-> seq + 1, row |-> Author(NewRow(seq, author, embedding))]

\* insert_author on a table whose embedding column takes any vector
InsertWithoutDimension(store, seq, author, embedding, store_outcome) ==
    IF store_outcome = "down"
    THEN [error |-> "StoreUnavailable", store |-> store, seq |-> seq, row |-> None]
    ELSE IF \E row \in store : row.email = author.email
    THEN [error |-> "DuplicateKey", store |-> store, seq |-> seq + 1, row |-> None]
    ELSE [error |-> "", store |-> store \cup {NewRow(seq, author, embedding)},
          seq |-> seq + 1, row |-> Author(NewRow(seq, author, embedding))]

\* INSERT INTO authors ... RETURNING, then db.commit(), against the table of
\* database.py: embedding vector(Dim), email UNIQUE, id SERIAL.  The
\* sequence value drawn for a row that violates the UNIQUE constraint is not
\* handed out again.
insert_author(store, seq, author, embedding, store_outcome) ==
    IF store_outcome = "down"
    THEN [error |-> "StoreUnavailable", store |-> store, seq |-> seq, row |-> None]
    ELSE IF CastFails(embedding) \/ Len(embedding) # Dim
    THEN [error |-> "DimensionMismatch", store |-> store, seq |-> seq, row |-> None]
    ELSE IF \E row \in store : row.email = author.email
    THEN [error |-> "DuplicateKey", store |-> store, seq |-> seq + 1, row |-> None]
    ELSE [error |-> "", store |-> store \cup {NewRow(seq, author, embedding)},
          seq |-> seq + 1, row |-> Author(NewRow(seq, author, embedding))]

(***************************************************************************)
(* The providers (bedrock_client.py).  An outcome of the embedding call is *)
(* [kind, embedding]: "ok" with the vector of the response body, "error"   *)
(* when invoke_model raises, "malformed" for a body without "embedding".   *)
(***************************************************************************)
EmbedOutcomes ==
    {[kind |-> "ok", embedding |-> v] : v \in Vectors \cup {ShortVector}}
    \cup {[kind |-> "error", embedding |-> <<>>], [kind |-> "malformed", embedding |-> <<>>]}

\* the database answers, or the statement raises
StoreOutcomes == {"ok", "down"}

\* "ok" with the generated text, or "error" when invoke_model raises
GenerateOutcomes ==
    {[kind |-> "ok", text |-> t] : t \in Answers} \cup {[kind |-> "error", text |-> ""]}

\* BedrockClient.generate_embedding: response_body.get("embedding", [])
generate_embedding(outcome) ==
    IF outcome.kind = "error" THEN [raised |-> TRUE, value |-> <<>>]
    ELSE IF outcome.kind = "malformed" THEN [raised |-> FALSE, value |-> <<>>]
    ELSE [raised |-> FALSE, value |-> outcome.embedding]

\* BedrockClient.generate_text
generate_text(outcome) ==
    IF outcome.kind = "error" THEN [raised |-> TRUE, text |-> ""]
    ELSE [raised |-> FALSE, text |-> outcome.text]

(***************************************************************************)
(* VectorSearchService.add_author_with_embedding: the embedding call, then *)
(* the insert.  The result carries the calls made, in order.               *)
(***************************************************************************)
add_author_with_embedding(store, seq, author, embed_outcome, store_outcome) ==
    LET e == generate_embedding(embed_outcome)
    IN IF e.raised
       THEN [error |-> "EmbeddingUnavailable", store |-> store, seq |-> seq,
             row |-> None, calls |-> <<"embed">>, embedding |-> <<>>]
       ELSE LET r == insert_author(store, seq, author, e.value, store_outcome)
            IN [error |-> r.error, store |-> r.store, seq |-> r.seq,
                row |-> r.row, calls |-> <<"embed", "insert">>, embedding |-> e.value]

\* the status of POST /authors: 201, or 500 from `except Exception`
create_author_status(error) == IF error = "" THEN 201 ELSE 500

(***************************************************************************)
(* State.  authors: the rows of the table; id_seq: the next value of the   *)
(* SERIAL sequence; req: the request being served (its input, the local    *)
(* variables of its handler, the calls made), with its response once       *)
(* pc = "done".  Requests are served one after the other: every handler    *)
(* reads or writes the table in a single statement, so a request running   *)
(* between two steps of another acts as if it had run before it.           *)
(***************************************************************************)
\* no AuthorCreate body
NoAuthor == [name |-> "", email |-> "", bio |-> "", expertise |-> ""]

Idle ==
    [endpoint |-> "none", pc |-> "idle", question |-> "", top_k |-> 0,
     threshold |-> <<0, 10>>, query_embedding |-> <<>>, results |-> <<>>,
     calls |-> <<>>, status |-> 0, error |-> "",
     prompt_authors |-> <<>>, prompt_question |-> "", body |-> None,
     author |-> NoAuthor, embedding |-> <<>>, author_id |-> 0, max_tokens |-> 0,
     limit |-> 0]

CanStart == req.pc \in {"idle", "done"}

\* id: Optional[int] = None
NoId == 0

\* a Book, by its id and title
NoBook == [id |-> NoId, title |-> ""]

\* the request threads of the books service
Workers == 1..NumWorkers

\* books_db and book_id_counter as the module defines them; no request in
\* any thread
InitBooks ==
    /\ books_db = <<[id |-> 1, title |-> "Guia"], [id |-> 2, title |-> "1984"],
                    [id |-> 3, title |-> "Duna"]>>
    /\ book_id_counter = 4
    /\ workers = [w \in Workers |-> [pc |-> "idle", book |-> NoBook, loaded |-> 0]]

\* The loader has not been started.  authors: the list to load; idx: the
\* position of the loop; aborted: the transaction of db_session has failed
\* and has not been rolled back; outcomes: for each author processed, the
\* error of its add_author_with_embedding (error) and the error the same
\* call gives on a session of its own (alone).
LoaderIdle ==
    [pc |-> "idle", authors |-> <<>>, idx |-> 0, loaded |-> 0, failed |-> 0,
     aborted |-> FALSE, outcomes |-> <<>>]

Init ==
    /\ authors = {}
    /\ id_seq = 1
    /\ req = Idle
    /\ InitBooks
    /\ loader = LoaderIdle

\* POST /authors
create_author(author, embed_outcome, store_outcome) ==
    /\ CanStart
    /\ id_seq <= MaxId
    /\ LET r == add_author_with_embedding(authors, id_seq, author, embed_outcome, store_outcome)
       IN /\ authors' = r.store
          /\ id_seq' = r.seq
          /\ req' = [Idle EXCEPT !.endpoint = "create", !.pc = "done",
                                 !.status = create_author_status(r.error),
                                 !.error = r.error, !.body = r.row, !.calls = r.calls,
                                 !.author = author, !.embedding = r.embedding]
    /\ UNCHANGED <<books_vars, loader>>

\* GET /authors/{author_id}
get_author(author_id) ==
    /\ CanStart
    /\ LET author == get_author_by_id(authors, author_id)
       IN req' = [Idle EXCEPT !.endpoint = "get", !.pc = "done", !.author_id = author_id,
                              !.status = IF author = None THEN 404 ELSE 200,
                              !.error = IF author = None THEN "NotFound" ELSE "",
                              !.body = author, !.calls = <<"select">>]
    /\ UNCHANGED <<authors, id_seq, books_vars, loader>>

\* `except Exception`: HTTP 500
Fail500(r, error) == [r EXCEPT !.pc = "done", !.status = 500, !.error = error]

\* summarize_author_profile with generate_text's default token budget
SummarizeDefaultBudget(outcome) ==
    LET g == generate_text(outcome)
    IN [raised |-> g.raised, text |-> g.text, max_tokens |-> DefaultMaxTokens]

\* the summary prompt goes to generate_text with max_tokens=256
summarize_author_profile(outcome) ==
    LET g == generate_text(outcome)
    IN [raised |-> g.raised, text |-> g.text, max_tokens |-> SummaryMaxTokens]

\* GET /authors/{author_id}/summary
get_author_summary(author_id, outcome) ==
    /\ CanStart
    /\ LET author == get_author_by_id(authors, author_id)
           s == summarize_author_profile(outcome)
           r == [Idle EXCEPT !.endpoint = "summary", !.pc = "done",
                             !.author_id = author_id, !.calls = <<"select">>]
       IN req' = IF author = None
                 THEN [r EXCEPT !.status = 404, !.error = "NotFound"]
                 ELSE LET called == [r EXCEPT !.calls = Append(r.calls, "generate"),
                                              !.max_tokens = s.max_tokens]
                      IN IF s.raised
                         THEN Fail500(called, "GenerationFailed")
                         ELSE [called EXCEPT !.status = 200,
                                             !.body = [author |-> author,
                                                       summary |-> s.text]]
    /\ UNCHANGED <<authors, id_seq, books_vars, loader>>

\* GET /authors
get_authors(limit) ==
    /\ CanStart
    /\ \E listed \in get_all_authors(authors, limit) :
          req' = [Idle EXCEPT !.endpoint = "list", !.pc = "done", !.limit = limit,
                              !.calls = <<"select">>, !.status = 200,
                              !.body = listed]
    /\ UNCHANGED <<authors, id_seq, books_vars, loader>>

(***************************************************************************)
(* POST /search/text and POST /ask: a request advances at each external    *)
(* call.                                                                   *)
(***************************************************************************)
\* POST /search/text arrives
search_authors_by_text(query, top_k, similarity_threshold) ==
    /\ CanStart
    /\ req' = [Idle EXCEPT !.endpoint = "search", !.pc = "embed", !.question = query,
                           !.top_k = top_k, !.threshold = similarity_threshold]
    /\ UNCHANGED <<authors, id_seq, books_vars, loader>>

\* POST /ask arrives: search_by_text with similarity_threshold=0.3
ask_question(question, top_k) ==
    /\ CanStart
    /\ req' = [Idle EXCEPT !.endpoint = "ask", !.pc = "embed", !.question = question,
                           !.top_k = top_k, !.threshold = GroundingThreshold]
    /\ UNCHANGED <<authors, id_seq, books_vars, loader>>

\* search_by_text, first half: bedrock_client.generate_embedding(query_text)
embed_step(r, embed_outcome) ==
    LET e == generate_embedding(embed_outcome)
        called == [r EXCEPT !.calls = Append(r.calls, "embed")]
    IN IF e.raised
       THEN Fail500(called, "EmbeddingUnavailable")
       ELSE [called EXCEPT !.pc = "query", !.query_embedding = e.value]

search_by_text_embed(embed_outcome) ==
    /\ req.pc = "embed"
    /\ req' = embed_step(req, embed_outcome)
    /\ UNCHANGED <<authors, id_seq, books_vars, loader>>

\* ask_after_search without the `if not results` check
AskAfterSearchUnchecked(r, results) == [r EXCEPT !.pc = "generate", !.results = results]

\* ask_question after search_by_text has returned: 404 without results,
\* otherwise on to answer_question_with_context
ask_after_search(r, results) ==
    IF results = <<>>
    THEN [r EXCEPT !.pc = "done", !.status = 404, !.error = "NoGroundingContext",
                   !.results = results]
    ELSE [r EXCEPT !.pc = "generate", !.results = results]

\* the handler once search_similar_authors has answered
query_step(r, outcome) ==
    LET called == [r EXCEPT !.calls = Append(r.calls, "search")]
    IN IF outcome.raised
       THEN Fail500(called, "StoreUnavailable")
       ELSE IF r.endpoint = "search"
       THEN [called EXCEPT !.pc = "done", !.status = 200, !.results = outcome.rows]
       ELSE ask_after_search(called, outcome.rows)

\* search_by_text, second half: search_similar_authors, or the store is down
search_by_text_query ==
    /\ req.pc = "query"
    /\ \E outcome \in search_similar_authors(authors, req.query_embedding, req.top_k,
                                             req.threshold)
                      \cup {[raised |-> TRUE, rows |-> <<>>]} :
          req' = query_step(req, outcome)
    /\ UNCHANGED <<authors, id_seq, books_vars, loader>>

\* one labelled block of the prompt of answer_question_with_context
ContextBlock(author) ==
    [name |-> author.name, email |-> author.email, bio |-> author.bio,
     expertise |-> author.expertise]

\* the blocks of the prompt, in the order of context_authors
ContextBlocks(context_authors) ==
    [i \in 1..Len(context_authors) |-> ContextBlock(context_authors[i])]

\* context_authors: List[Author] of QuestionResponse
ResponseAuthors(results) == [i \in 1..Len(results) |-> Author(results[i])]

\* generate_step that calls the model again after a failure
GenerateStepRetry(r, outcome) ==
    LET g == generate_text(outcome)
        called == [r EXCEPT !.calls = Append(r.calls, "generate"),
                            !.prompt_authors = ContextBlocks(r.results),
                            !.prompt_question = r.question,
                            !.max_tokens = AnswerMaxTokens]
    IN IF g.raised
       THEN IF Len(r.calls) < 3 THEN called ELSE Fail500(called, "GenerationFailed")
       ELSE [called EXCEPT !.pc = "done", !.status = 200,
                           !.body = [question |-> r.question, answer |-> g.text,
                                     context_authors |-> ResponseAuthors(r.results)]]

\* generate_step that builds the prompt from the best match alone
GenerateStepFirstOnly(r, outcome) ==
    LET g == generate_text(outcome)
        called == [r EXCEPT !.calls = Append(r.calls, "generate"),
                            !.prompt_authors = ContextBlocks(Take(r.results, 1)),
                            !.prompt_question = r.question,
                            !.max_tokens = AnswerMaxTokens]
    IN IF g.raised
       THEN Fail500(called, "GenerationFailed")
       ELSE [called EXCEPT !.pc = "done", !.status = 200,
                           !.body = [question |-> r.question, answer |-> g.text,
                                     context_authors |-> ResponseAuthors(r.results)]]

\* generate_step that answers a failed model call with the 404 of the
\* empty search
GenerateStepNotFound(r, outcome) ==
    LET g == generate_text(outcome)
        called == [r EXCEPT !.calls = Append(r.calls, "generate"),
                            !.prompt_authors = ContextBlocks(r.results),
                            !.prompt_question = r.question,
                            !.max_tokens = AnswerMaxTokens]
    IN IF g.raised
       THEN [called EXCEPT !.pc = "done", !.status = 404, !.error = "GenerationFailed"]
       ELSE [called EXCEPT !.pc = "done", !.status = 200,
                           !.body = [question |-> r.question, answer |-> g.text,
                                     context_authors |-> ResponseAuthors(r.results)]]

\* answer_question_with_context, then QuestionResponse(question, answer,
\* context_authors=results) with context_authors: List[Author]
generate_step(r, outcome) ==
    LET g == generate_text(outcome)
        called == [r EXCEPT !.calls = Append(r.calls, "generate"),
                            !.prompt_authors = ContextBlocks(r.results),
                            !.prompt_question = r.question,
                            !.max_tokens = AnswerMaxTokens]
    IN IF g.raised
       THEN Fail500(called, "GenerationFailed")
       ELSE [called EXCEPT !.pc = "done", !.status = 200,
                           !.body = [question |-> r.question, answer |-> g.text,
                                     context_authors |-> ResponseAuthors(r.results)]]

ask_question_generate(outcome) ==
    /\ req.pc = "generate"
    /\ req' = generate_step(req, outcome)
    /\ UNCHANGED <<authors, id_seq, books_vars, loader>>

Next ==
    \/ \E author \in AuthorInputs, eo \in EmbedOutcomes, so \in StoreOutcomes :
          create_author(author, eo, so)
    \/ \E author_id \in 1..(MaxId + 1) : get_author(author_id)
    \/ \E author_id \in 1..(MaxId + 1), go \in GenerateOutcomes :
          get_author_summary(author_id, go)
    \/ \E limit \in Limits : get_authors(limit)
    \/ \E query \in Queries, top_k \in TopKs, threshold \in SearchThresholds :
          search_authors_by_text(query, top_k, threshold)
    \/ \E question \in Questions, top_k \in TopKs : ask_question(question, top_k)
    \/ \E eo \in EmbedOutcomes : search_by_text_embed(eo)
    \/ search_by_text_query
    \/ \E go \in GenerateOutcomes : ask_question_generate(go)

Spec == Init /\ [][Next]_vars

(***************************************************************************)
(* The similarity query on its own: any table the schema of database.py    *)
(* admits (embedding is nullable there), any query vector, top_k and       *)
(* threshold.                                                              *)
(***************************************************************************)
StoreRow(i, embedding) ==
    [id |-> i, name |-> "name" \o ToString(i), email |-> ToString(i) \o "@x",
     bio |-> "bio", expertise |-> "exp", embedding |-> embedding]

StoreContents ==
    UNION {{{StoreRow(i, e[i]) : i \in ids} : e \in [ids -> Vectors \cup {NoEmbedding}]} :
           ids \in SUBSET (1..MaxRows)}

InitStore ==
    /\ authors \in StoreContents
    /\ id_seq = MaxRows + 1
    /\ req = Idle
    /\ InitBooks
    /\ loader = LoaderIdle

\* one call of search_similar_authors on the table drawn
queryBySimilarity(query_embedding, top_k, similarity_threshold) ==
    /\ req.pc = "idle"
    /\ \E outcome \in search_similar_authors(authors, query_embedding, top_k,
                                             similarity_threshold) :
          req' = [Idle EXCEPT !.endpoint = "query", !.pc = "done",
                              !.query_embedding = query_embedding, !.top_k = top_k,
                              !.threshold = similarity_threshold,
                              !.results = outcome.rows,
                              !.error = IF outcome.raised THEN "StoreUnavailable" ELSE ""]
    /\ UNCHANGED <<authors, id_seq, books_vars, loader>>

NextStore ==
    \E query_embedding \in Vectors, top_k \in TopKs, threshold \in Thresholds :
        queryBySimilarity(query_embedding, top_k, threshold)

SpecStore == InitStore /\ [][NextStore]_vars

(***************************************************************************)
(* The books service (books-api/main.py).  books_db and book_id_counter    *)
(* are module globals; the handlers are plain functions, which the         *)
(* framework runs in threads of a pool, so a second request may run        *)
(* between two statements of create_book.  A thread holds its request body *)
(* (book) and the counter value read by `book_id_counter += 1` (loaded).   *)
(* update_book and delete_book act on books_db in one step.                *)
(***************************************************************************)
\* ids a request path carries
BookIds == 1..MaxBookId

\* ids a request body carries
BodyIds == {NoId, 1, 2}

\* request bodies
BookInputs == {[id |-> i, title |-> "Novo"] : i \in BodyIds}

\* next((i for i, b in enumerate(books_db) if b.id == book_id), None);
\* 0 stands for None
IndexOf(db, book_id) ==
    IF \E i \in 1..Len(db) : db[i].id = book_id
    THEN CHOOSE i \in 1..Len(db) :
            /\ db[i].id = book_id
            /\ \A j \in 1..(i - 1) : db[j].id # book_id
    ELSE 0

\* books_db.pop(idx)
Pop(db, idx) == SubSeq(db, 1, idx - 1) \o SubSeq(db, idx + 1, Len(db))

\* books_db[idx] = book
ReplaceAt(db, idx, book) == [db EXCEPT ![idx] = book]

\* POST /books arrives in thread w: book.id = book_id_counter
create_book(w, book) ==
    /\ workers[w].pc = "idle"
    /\ book_id_counter <= MaxBookId
    /\ Len(books_db) + Cardinality({v \in Workers : workers[v].pc # "idle"}) < MaxBooks
    /\ workers' = [workers EXCEPT ![w] = [pc |-> "load", loaded |-> 0,
                                          book |-> [book EXCEPT !.id = book_id_counter]]]
    /\ UNCHANGED <<books_db, book_id_counter, authors, id_seq, req, loader>>

\* book_id_counter += 1: the read
create_book_load(w) ==
    /\ workers[w].pc = "load"
    /\ workers' = [workers EXCEPT ![w].pc = "store", ![w].loaded = book_id_counter]
    /\ UNCHANGED <<books_db, book_id_counter, authors, id_seq, req, loader>>

\* book_id_counter += 1: the write
create_book_store(w) ==
    /\ workers[w].pc = "store"
    /\ book_id_counter' = workers[w].loaded + 1
    /\ workers' = [workers EXCEPT ![w].pc = "append"]
    /\ UNCHANGED <<books_db, authors, id_seq, req, loader>>

\* books_db.append(book); return book
create_book_append(w) ==
    /\ workers[w].pc = "append"
    /\ books_db' = Append(books_db, workers[w].book)
    /\ workers' = [workers EXCEPT ![w].pc = "idle"]
    /\ UNCHANGED <<book_id_counter, authors, id_seq, req, loader>>

\* PUT /books/{book_id}: 404 when no entry has the id
update_book(book_id, book) ==
    /\ LET idx == IndexOf(books_db, book_id)
       IN books_db' = IF idx = 0 THEN books_db ELSE ReplaceAt(books_db, idx, book)
    /\ UNCHANGED <<book_id_counter, workers, authors, id_seq, req, loader>>

\* DELETE /books/{book_id}: 404 when no entry has the id
delete_book(book_id) ==
    /\ LET idx == IndexOf(books_db, book_id)
       IN books_db' = IF idx = 0 THEN books_db ELSE Pop(books_db, idx)
    /\ UNCHANGED <<book_id_counter, workers, authors, id_seq, req, loader>>

NextBooks ==
    \/ \E w \in Workers, book \in BookInputs : create_book(w, book)
    \/ \E w \in Workers : create_book_load(w)
    \/ \E w \in Workers : create_book_store(w)
    \/ \E w \in Workers : create_book_append(w)
    \/ \E book_id \in BookIds, book \in BookInputs : update_book(book_id, book)
    \/ \E book_id \in BookIds : delete_book(book_id)

SpecBooks == Init /\ [][NextBooks]_vars

(***************************************************************************)
(* The bulk loader (data_loader.py).  load_authors_to_database opens one   *)
(* session and calls add_author_with_embedding on it for each author; the  *)
(* loop catches the exception of an author and goes on, without rollback.  *)
(* A statement that fails leaves the transaction of the session failed:    *)
(* until a rollback every later statement on the session raises.           *)
(***************************************************************************)
\* the lists of authors a CSV file can hold
AuthorLists == UNION {[1..n -> AuthorInputs] : n \in 0..MaxAuthors}

\* the table before the loader runs: empty, or a row of an earlier load
ExistingTables == {{}, {StoreRow(1, Ones)}}

InitLoader ==
    /\ authors \in ExistingTables
    /\ id_seq = Cardinality(authors) + 1
    /\ req = Idle
    /\ InitBooks
    /\ loader = LoaderIdle

\* add_author_with_embedding on the session of the loader: the embedding
\* call, then the INSERT, which raises when the transaction has failed; a
\* failed INSERT fails the transaction
session_add_author(store, seq, aborted, author, embed_outcome, store_outcome) ==
    LET r == add_author_with_embedding(store, seq, author, embed_outcome,
                                       IF aborted THEN "down" ELSE store_outcome)
        executed == Len(r.calls) = 2
    IN [error |-> IF aborted /\ executed THEN "InFailedTransaction" ELSE r.error,
        store |-> r.store, seq |-> r.seq,
        aborted |-> aborted \/ (executed /\ r.error # "")]

\* load_authors_to_database up to the loop: check_existing_authors, then
\* return, or TRUNCATE ... RESTART IDENTITY, or nothing
load_authors_to_database(list, force_reload) ==
    /\ loader.pc = "idle"
    /\ IF Cardinality(authors) > 0 /\ ~force_reload
       THEN /\ loader' = [loader EXCEPT !.pc = "skipped", !.authors = list]
            /\ UNCHANGED <<authors, id_seq>>
       ELSE /\ loader' = [loader EXCEPT !.pc = IF list = <<>> THEN "done" ELSE "loop",
                                        !.authors = list, !.idx = 1]
            /\ authors' = {}
            /\ id_seq' = IF Cardinality(authors) > 0 THEN 1 ELSE id_seq
    /\ UNCHANGED <<req, books_vars>>

\* one turn of the loop: add_author_with_embedding, loaded += 1, or
\* failed += 1 in `except Exception`
load_author(embed_outcome, store_outcome) ==
    /\ loader.pc = "loop"
    /\ LET author == loader.authors[loader.idx]
           r == session_add_author(authors, id_seq, loader.aborted, author,
                                   embed_outcome, store_outcome)
           alone == add_author_with_embedding(authors, id_seq, author,
                                              embed_outcome, store_outcome)
       IN /\ authors' = r.store
          /\ id_seq' = r.seq
          /\ loader' = [loader EXCEPT
                          !.pc = IF loader.idx = Len(loader.authors) THEN "done" ELSE "loop",
                          !.idx = loader.idx + 1,
                          !.loaded = IF r.error = "" THEN loader.loaded + 1 ELSE loader.loaded,
                          !.failed = IF r.error = "" THEN loader.failed ELSE loader.failed + 1,
                          !.aborted = r.aborted,
                          !.outcomes = Append(loader.outcomes,
                                              [error |-> r.error, alone |-> alone.error])]
    /\ UNCHANGED <<req, books_vars>>

NextLoader ==
    \/ \E list \in AuthorLists, force_reload \in BOOLEAN :
          load_authors_to_database(list, force_reload)
    \/ \E eo \in EmbedOutcomes, so \in StoreOutcomes : load_author(eo, so)

SpecLoader == InitLoader /\ [][NextLoader]_vars

(***************************************************************************)
(* Properties of the similarity query (checked under SpecStore).           *)
(***************************************************************************)
Queried == req.endpoint = "query" /\ req.pc = "done" /\ req.error = ""

\* C1: search_similar_authors returns at most top_k rows, each the row of
\* the table with that id, with a similarity_score strictly above the
\* threshold, and never a row whose embedding is NULL.
C1_AtMostTopKAboveThreshold ==
    Queried =>
        /\ Len(req.results) <= req.top_k
        /\ \A i \in 1..Len(req.results) :
              /\ \E row \in authors :
                    /\ row.id = req.results[i].id
                    /\ row.embedding # NoEmbedding
                    /\ req.results[i].similarity_score
                           = similarity_score(row.embedding, req.query_embedding)
              /\ ScoreAbove(req.results[i].similarity_score, req.threshold)

\* the cut at top_k drops a row above the threshold, while the table also
\* holds a row without embedding
C1_Witness ==
    /\ Queried
    /\ Len(req.results) = req.top_k
    /\ Cardinality({row \in authors :
            /\ row.embedding # NoEmbedding
            /\ ScoreAbove(similarity_score(row.embedding, req.query_embedding),
                          req.threshold)}) > req.top_k
    /\ \E row \in authors : row.embedding = NoEmbedding

\* C2: the rows come by descending similarity_score and, among rows of equal
\* score, by ascending id.
C2_TiesByAscendingId ==
    Queried =>
        \A i, j \in 1..Len(req.results) :
            i < j =>
                /\ ~ScoreLess(req.results[i].similarity_score, req.results[j].similarity_score)
                /\ ScoreEq(req.results[i].similarity_score, req.results[j].similarity_score)
                       => req.results[i].id < req.results[j].id

(***************************************************************************)
(* Properties of the endpoints (checked under Spec).                       *)
(***************************************************************************)
Called(call) == \E i \in 1..Len(req.calls) : req.calls[i] = call

\* search_by_text has returned a list to ask_question, and the list is empty
AskFoundNothing ==
    /\ req.endpoint = "ask"
    /\ Called("search")
    /\ req.error # "StoreUnavailable"
    /\ req.results = <<>>

\* C3: when the search of ask_question returns no record above the
\* grounding threshold, the request ends with 404 (NoGroundingContext) and
\* the generation provider is not called.
C3_NoGroundingNoGeneration ==
    AskFoundNothing =>
        /\ req.pc = "done"
        /\ req.status = 404
        /\ req.error = "NoGroundingContext"
        /\ ~Called("generate")

\* authors are stored, none of them above the grounding threshold
C3_Witness ==
    /\ AskFoundNothing
    /\ req.pc = "done"
    /\ authors # {}
    /\ Matching(authors, req.query_embedding, GroundingThreshold) = {}

EmailExists(email) == \E row \in authors : row.email = email

\* C4: a create whose email is already stored fails and leaves the table as
\* it was; unless the embedding call or the database has failed, it fails
\* with DuplicateKey.
C4_DuplicateEmailRejected ==
    [][(req'.endpoint = "create" /\ EmailExists(req'.author.email)) =>
          /\ authors' = authors
          /\ req'.status # 201
          /\ req'.body = None
          /\ (Len(req'.embedding) = Dim /\ req'.error # "StoreUnavailable")
                 => req'.error = "DuplicateKey"]_vars

\* a create has just failed on an email another stored author holds
C4_Witness ==
    /\ req.endpoint = "create"
    /\ req.error = "DuplicateKey"
    /\ Cardinality(authors) = 1

\* C5: POST /authors answers 409 to a duplicate email and 500 to
\* an embedding or storage failure.
C5_DuplicateIs409 ==
    (req.endpoint = "create" /\ req.pc = "done") =>
        /\ req.error = "DuplicateKey" => req.status = 409
        /\ req.error \in {"EmbeddingUnavailable", "StoreUnavailable", "DimensionMismatch"}
               => req.status = 500

\* C6: after every step each stored author has an embedding of the
\* configured dimension, and a create that fails leaves the table as it was.
C6_EmbeddingAlwaysStored ==
    [][/\ \A row \in authors' :
             row.embedding # NoEmbedding /\ Len(row.embedding) = Dim
       /\ (req'.endpoint = "create" /\ req'.status # 201) => authors' = authors]_vars

\* an insert has failed after a successful embedding call, with authors stored
C6_Witness ==
    /\ req.endpoint = "create"
    /\ req.calls = <<"embed", "insert">>
    /\ req.error \in {"DimensionMismatch", "StoreUnavailable"}
    /\ authors # {}

\* a search has ended whose embedding call gave no vector
EmbeddingFailed ==
    /\ req.endpoint \in {"search", "ask"}
    /\ req.pc = "done"
    /\ Called("embed")
    /\ req.query_embedding = <<>>

\* C7: when the embedding call of search_by_text fails (error or
\* body without embedding), the request ends with EmbeddingUnavailable after
\* that one call, the store is not queried and no result is returned.
C7_EmbeddingFailureStopsSearch ==
    EmbeddingFailed =>
        /\ req.status = 500
        /\ req.error = "EmbeddingUnavailable"
        /\ req.calls = <<"embed">>
        /\ req.results = <<>>

AskCallOrder == <<"embed", "search", "generate">>

\* C8: the calls of one ask_question are a prefix of embed, search,
\* generate (each at most once, in that order), and generation is reached
\* only with a non-empty search result, from which its prompt is built.
C8_EmbedSearchGenerate ==
    req.endpoint = "ask" =>
        /\ Len(req.calls) <= Len(AskCallOrder)
        /\ req.calls = SubSeq(AskCallOrder, 1, Len(req.calls))
        /\ (req.pc = "generate" \/ Called("generate")) =>
               /\ req.results # <<>>
               /\ Called("search")
        /\ Called("generate") => req.prompt_authors = ContextBlocks(req.results)

\* a question answered after all three calls
C8_Witness ==
    /\ req.endpoint = "ask"
    /\ req.status = 200
    /\ req.calls = AskCallOrder

AskAnswered == req.endpoint = "ask" /\ req.pc = "done" /\ req.status = 200

\* C9: a successful ask_question returns the question it was asked and, as
\* context_authors, the records the prompt was built from, which are the
\* search results in their order (descending similarity).
C9_ContextAuthorsAsUsed ==
    AskAnswered =>
        /\ req.body.question = req.question
        /\ req.prompt_question = req.question
        /\ Len(req.body.context_authors) = Len(req.results)
        /\ Len(req.prompt_authors) = Len(req.results)
        /\ \A i \in 1..Len(req.results) :
              /\ req.body.context_authors[i] = Author(req.results[i])
              /\ req.prompt_authors[i] = ContextBlock(req.body.context_authors[i])
        /\ \A i, j \in 1..Len(req.results) :
              i < j => ~ScoreLess(req.results[i].similarity_score,
                                  req.results[j].similarity_score)

\* an answer grounded on two authors of different similarity
C9_Witness ==
    /\ AskAnswered
    /\ Len(req.body.context_authors) = 2
    /\ ScoreLess(req.results[2].similarity_score, req.results[1].similarity_score)

\* the row of the table with this id holds this embedding
StoredWith(store, author_id, embedding) ==
    \E row \in store : row.id = author_id /\ row.embedding = embedding

\* get_author_by_id gives the fields of the author created
SameFields(got, author_id, author) ==
    /\ got # None
    /\ got.id = author_id
    /\ got.name = author.name
    /\ got.email = author.email
    /\ got.bio = author.bio
    /\ got.expertise = author.expertise

C11_GenerationFailedIsNot404 ==
    (req.endpoint = "ask" /\ req.pc = "done") =>
        /\ req.status = 404 <=> (AskFoundNothing /\ ~Called("generate"))
        /\ req.status = 404 <=> req.error = "NoGroundingContext"
        /\ req.error = "GenerationFailed" <=> (Called("generate") /\ req.status # 200)
        /\ req.error = "GenerationFailed" => (req.status = 500 /\ req.results # <<>>)

\* the model call of a grounded question has failed
C11_Witness ==
    /\ req.endpoint = "ask"
    /\ req.pc = "done"
    /\ req.error = "GenerationFailed"
    /\ req.status = 500
    /\ req.results # <<>>

\* C12: get_author_summary for an id that is not in the table answers 404
\* (NotFound) without a generation call; for an id in the table it makes
\* exactly one generation call, with max_tokens 256, and a 200 response
\* carries that record and the text the call returned (a failed call is
\* answered 500).
C12_SummaryOfStoredAuthorOnly ==
    (req.endpoint = "summary" /\ req.pc = "done") =>
        LET author == get_author_by_id(authors, req.author_id)
        IN IF author = None
           THEN /\ req.status = 404
                /\ req.error = "NotFound"
                /\ ~Called("generate")
           ELSE /\ req.calls = <<"select", "generate">>
                /\ req.max_tokens = 256
                /\ req.status \in {200, 500}
                /\ req.status = 200 =>
                      /\ req.body.author = author
                      /\ req.body.author.id = req.author_id
                      /\ req.body.summary \in Answers
                /\ req.status = 500 => req.error = "GenerationFailed"

\* a summary of a stored author has been returned
C12_Witness ==
    /\ req.endpoint = "summary"
    /\ req.pc = "done"
    /\ req.status = 200
    /\ req.body.summary = "answer"
    /\ \E row \in authors : row.id = req.author_id /\ req.body.author = Author(row)

Listed == req.endpoint = "list" /\ req.pc = "done"

\* C13: get_authors(limit) answers with records of the table in ascending
\* id order, at most limit of them, and a get_authors(limit) that follows a
\* get_authors(limit) on the same table answers with the same sequence.
C13_ListAscendingBoundedRepeatable ==
    [][(req'.endpoint = "list" /\ req'.pc = "done") =>
          /\ Len(req'.body) <= req'.limit
          /\ \A i \in 1..Len(req'.body) :
                \E row \in authors' : req'.body[i] = Author(row)
          /\ \A i, j \in 1..Len(req'.body) :
                i < j => req'.body[i].id < req'.body[j].id
          /\ (Listed /\ req.limit = req'.limit /\ authors' = authors) =>
                req'.body = req.body]_vars

\* the table holds more rows than limit and the list is the row of the
\* lowest id
C13_Witness ==
    /\ Listed
    /\ Cardinality(authors) > req.limit
    /\ Len(req.body) = req.limit
    /\ \A row \in authors : req.body[1].id <= row.id

\* C14: no two entries of books_db have the same id, and the entry that
\* update_book(book_id, ...) replaces has id book_id afterwards.
C14_BookIdsUniqueAndKept ==
    [][/\ \A i, j \in 1..Len(books_db') : i # j => books_db'[i].id # books_db'[j].id
       /\ \A book_id \in BookIds, book \in BookInputs :
             (update_book(book_id, book) /\ IndexOf(books_db, book_id) # 0) =>
                books_db'[IndexOf(books_db, book_id)].id = book_id]_vars

\* C15: two create_book requests in progress at the same time hold distinct
\* ids, and once no create_book is in progress book_id_counter is greater
\* than the id of every entry of books_db.
C15_ConcurrentCreatesDistinctIds ==
    /\ \A v, w \in Workers :
          (v # w /\ workers[v].pc # "idle" /\ workers[w].pc # "idle") =>
             workers[v].book.id # workers[w].book.id
    /\ (\A w \in Workers : workers[w].pc = "idle") =>
          \A i \in 1..Len(books_db) : books_db[i].id < book_id_counter

\* C16: when the loader has gone through the list, loaded + failed is the
\* number of authors, and every author whose add_author_with_embedding
\* succeeds on a session of its own has its row in the table, whatever
\* failed before it.
C16_FailureDoesNotStopLaterAuthors ==
    loader.pc = "done" =>
        /\ loader.loaded + loader.failed = Len(loader.authors)
        /\ \A i \in 1..Len(loader.authors) :
              loader.outcomes[i].alone = "" =>
                 \E row \in authors : /\ row.name = loader.authors[i].name
                                      /\ row.email = loader.authors[i].email

====
